---- MODULE Spec2Model ----
(***************************************************************************)
(* A model of the SQL tutorial page (src/main.py): the column              *)
(* de-duplication, the session store and its query engine boundary, the    *)
(* query runner, the result validator, the editor's change handler with    *)
(* its process-wide cache, and the rendering passes of Lesson 1.           *)
(*                                                                         *)
(* SQL text is a sequence of tokens; a whitespace character is a token of  *)
(* its own, so that str.strip() is modelled by what it removes.  TEXT      *)
(* values of the store are represented by their rank in the collation      *)
(* order, so that ORDER BY and sort_values compare them as the engine and  *)
(* the data-frame library do.                                              *)
(***************************************************************************)
EXTENDS Integers, Sequences, FiniteSets, TLC

VARIABLES
    \* ---- the rendering passes of Lesson 1 (specification Spec) ----
    pc,            \* per session: the position of the script run
    button,        \* per session: the button whose press started the pass
    conn,          \* per session: the handle of the pass's connection
    dbs,           \* the live in-memory databases, by handle
    nextConn,      \* the number of databases created so far
    widget,        \* per session and editor: the editor's latest response
    session_state, \* per session: st.session_state
    cache,         \* the response ids _handle_editor_change is cached for
    nextId,        \* the number of editor responses produced so far
    ui,            \* per session: what the current pass has displayed
    raised,        \* per session: the pass ended in an unhandled exception
    dirty,         \* per session: an earlier pass left its store changed
    \* ---- one connection driven call by call (specification SpecQuery) ----
    q_db,          \* the database behind the connection
    q_call,        \* the last call and its arguments
    q_out,         \* what the last call returned, displayed and executed
    \* ---- df_column_uniquify on its own (specification SpecUniq) ----
    u_in,          \* the column labels of the data frame passed in
    u_out,         \* the column labels of the data frame returned
    u_pc           \* "input", "done", "again"

vars == <<pc, button, conn, dbs, nextConn, widget, session_state, cache, nextId,
          ui, raised, dirty, q_db, q_call, q_out, u_in, u_out, u_pc>>

appVars == <<pc, button, conn, dbs, nextConn, widget, session_state, cache,
             nextId, ui, raised, dirty>>
queryVars == <<q_db, q_call, q_out>>
uniqVars == <<u_in, u_out, u_pc>>

-----------------------------------------------------------------------------
(* Bounds of the model.                                                    *)

\* the longest column-label sequence given to df_column_uniquify
MaxCols == 4
\* the number of editor submissions in a run of the application
MaxSubmits == 2
\* the number of rendering passes in a run of the application
MaxRenders == 3

-----------------------------------------------------------------------------
(* Small helpers.                                                          *)

Contains(s, x) == \E i \in 1..Len(s) : s[i] = x

Count(s, x) == Cardinality({i \in 1..Len(s) : s[i] = x})

\* lexicographic order on integer sequences of equal length
RECURSIVE LexLess(_, _)
LexLess(a, b) ==
    IF a = <<>> \/ b = <<>> THEN FALSE
    ELSE IF Head(a) # Head(b) THEN Head(a) < Head(b)
    ELSE LexLess(Tail(a), Tail(b))

\* insert p after the last element whose key is not greater (stable)
RECURSIVE InsertByKey(_, _)
InsertByKey(p, s) ==
    IF s = <<>> THEN <<p>>
    ELSE IF LexLess(p.key, Head(s).key) THEN <<p>> \o s
    ELSE <<Head(s)>> \o InsertByKey(p, Tail(s))

\* a stable ascending sort of records [key, ...] by key
RECURSIVE SortByKey(_)
SortByKey(s) ==
    IF s = <<>> THEN <<>>
    ELSE InsertByKey(s[Len(s)], SortByKey(SubSeq(s, 1, Len(s) - 1)))

-----------------------------------------------------------------------------
(* Data frames.  A frame has its column labels, its row index and its      *)
(* rows (each row a sequence of values, one per column).                   *)

DataFrame(results, col_names) ==
    [columns |-> col_names,
     index   |-> [i \in 1..Len(results) |-> i - 1],
     rows    |-> results]

\* "{}_{}".format(item, counter)
Format(item, counter) == item \o "_" \o ToString(counter)

\* a df_column_uniquify whose while loop is missing
NoRename(item, counter, new_columns) == item

\* the while loop of df_column_uniquify: the first of item, item_1, item_2,
\* ... that is not yet among new_columns
RECURSIVE NewItem(_, _, _)
NewItem(item, counter, new_columns) ==
    IF Contains(new_columns, IF counter = 0 THEN item ELSE Format(item, counter))
    THEN NewItem(item, counter + 1, new_columns)
    ELSE IF counter = 0 THEN item ELSE Format(item, counter)

\* the for loop of df_column_uniquify over the labels still to be renamed
RECURSIVE UniquifyLoop(_, _)
UniquifyLoop(df_columns, new_columns) ==
    IF df_columns = <<>> THEN new_columns
    ELSE UniquifyLoop(Tail(df_columns),
                      Append(new_columns, NewItem(Head(df_columns), 0, new_columns)))

\* a df_column_uniquify that forgets df.columns = new_columns
KeepColumns(df) == df

df_column_uniquify(df) ==
    [df EXCEPT !.columns = UniquifyLoop(df.columns, <<>>)]

-----------------------------------------------------------------------------
(* df_column_uniquify on its own: the labels are drawn from a set that     *)
(* holds a label and its own suffixed form.                                *)

Labels == {"a", "a_1", "b", "x"}

LabelSeqs == UNION {[1..n -> Labels] : n \in 0..MaxCols}

UniqIdle == u_in = <<>> /\ u_out = <<>> /\ u_pc = "idle"

UniqInit == u_in \in LabelSeqs /\ u_out = <<>> /\ u_pc = "input"

\* the frame with the chosen labels is uniquified
UApply ==
    /\ u_pc = "input"
    /\ u_out' = df_column_uniquify(DataFrame(<<>>, u_in)).columns
    /\ u_pc' = "done"
    /\ UNCHANGED <<u_in, appVars, queryVars>>

\* the frame returned is uniquified once more
UAgain ==
    /\ u_pc = "done"
    /\ u_in' = u_out
    /\ u_out' = df_column_uniquify(DataFrame(<<>>, u_out)).columns
    /\ u_pc' = "again"
    /\ UNCHANGED <<appVars, queryVars>>

-----------------------------------------------------------------------------
(* SQL text and the store.                                                 *)

Whitespace == {" ", "\n"}

IsSpace(t) == t \in Whitespace

IsWord(t) == t \notin Whitespace

IsNotComma(t) == t # ","

RECURSIVE LStrip(_)
LStrip(s) == IF s # <<>> /\ IsSpace(Head(s)) THEN LStrip(Tail(s)) ELSE s

RECURSIVE RStrip(_)
RStrip(s) ==
    IF s # <<>> /\ IsSpace(s[Len(s)]) THEN RStrip(SubSeq(s, 1, Len(s) - 1)) ELSE s

\* a test of sql itself instead of sql.strip()
NoStrip(s) == s

\* str.strip()
Strip(s) == RStrip(LStrip(s))

\* the values 'Alice' and 'Bob' of the demonstration rows, by collation rank
Alice == 1
Bob == 2

\* the database initialize_sql_session_in_memory creates: the users table
\* and its two rows (the INTEGER PRIMARY KEY is assigned 1, 2)
UsersDb ==
    [t \in {"users"} |->
        [cols |-> <<"id", "name", "age">>,
         rows |-> << <<1, Alice, 30>>, <<2, Bob, 25>> >>]]

\* load_df: the frames read from data/Employees.csv, data/Departments.csv
\* and data/Jobs.csv (header row and records)
load_df(table_name) ==
    CASE table_name = "Employees" ->
            DataFrame(<< <<1, 3>>, <<2, 4>> >>, <<"EmployeeID", "Name">>)
      [] table_name = "Departments" ->
            DataFrame(<< <<10, 5>> >>, <<"DepartmentID", "DepartmentName">>)
      [] table_name = "Jobs" ->
            DataFrame(<< <<20, 6>> >>, <<"JobID", "JobTitle">>)

\* df.to_sql(table_name, conn, if_exists='replace', index=False)
insert_df_into_sqlite(db, df, table_name) ==
    [t \in DOMAIN db \cup {table_name} |->
        IF t = table_name THEN [cols |-> df.columns, rows |-> df.rows] ELSE db[t]]

RECURSIVE LoadTables(_, _)
LoadTables(db, table_names) ==
    IF table_names = <<>> THEN db
    ELSE LoadTables(insert_df_into_sqlite(db, load_df(Head(table_names)),
                                          Head(table_names)),
                    Tail(table_names))

\* the content of a store right after task_1 has created and loaded it
SeedDb == LoadTables(UsersDb, <<"Employees", "Departments", "Jobs">>)

-----------------------------------------------------------------------------
(* The query engine behind cursor.execute: one statement is run against    *)
(* the database; the result is the engine's failure, or the rows, the      *)
(* column descriptors (NoDescription for a statement that returns no       *)
(* rows) and the database as the statement leaves it.                      *)

NoDescription == <<"None">>

NoException == [type |-> "none", msg |-> ""]

OperationalError(msg) == [type |-> "sqlite3.OperationalError", msg |-> msg]

TypeError(msg) == [type |-> "TypeError", msg |-> msg]

ValueError(msg) == [type |-> "ValueError", msg |-> msg]

DatabaseError(msg) == [type |-> "pandas.errors.DatabaseError", msg |-> msg]

\* except sqlite3.Error
IsSqliteError(e) == e.type \in {"sqlite3.OperationalError"}

Failure(db, msg) ==
    [exc |-> OperationalError(msg), description |-> NoDescription,
     rows |-> <<>>, db |-> db]

Result(db, description, rows) ==
    [exc |-> NoException, description |-> description, rows |-> rows, db |-> db]

SyntaxError(db, w) ==
    Failure(db, IF w = <<>> THEN "incomplete input"
                ELSE "near \"" \o w[1] \o "\": syntax error")

IndexOf(s, x) == CHOOSE i \in 1..Len(s) : s[i] = x /\ \A j \in 1..(i - 1) : s[j] # x

\* the select list with * replaced by the table's columns
RECURSIVE ExpandList(_, _)
ExpandList(sel, cols) ==
    IF sel = <<>> THEN <<>>
    ELSE (IF Head(sel) = "*" THEN cols ELSE <<Head(sel)>>)
         \o ExpandList(Tail(sel), cols)

\* the values of the row in the out columns
RECURSIVE Project(_, _, _)
Project(row, tcols, out) ==
    IF out = <<>> THEN <<>>
    ELSE <<row[IndexOf(tcols, Head(out))]>> \o Project(row, tcols, Tail(out))

RECURSIVE ProjectRows(_, _, _)
ProjectRows(rows, tcols, out) ==
    IF rows = <<>> THEN <<>>
    ELSE <<Project(Head(rows), tcols, out)>> \o ProjectRows(Tail(rows), tcols, out)

\* each row with its sort key: its values in the by columns, negated for a
\* descending order
RECURSIVE Keyed(_, _, _, _, _)
Keyed(rows, index, tcols, by, sign) ==
    IF rows = <<>> THEN <<>>
    ELSE <<[key |-> [j \in 1..Len(by) |-> sign * Head(rows)[IndexOf(tcols, by[j])]],
            idx |-> Head(index), row |-> Head(rows)]>>
         \o Keyed(Tail(rows), Tail(index), tcols, by, sign)

RECURSIVE RowsOf(_)
RowsOf(keyed) == IF keyed = <<>> THEN <<>> ELSE <<Head(keyed).row>> \o RowsOf(Tail(keyed))

RECURSIVE IndexesOf(_)
IndexesOf(keyed) ==
    IF keyed = <<>> THEN <<>> ELSE <<Head(keyed).idx>> \o IndexesOf(Tail(keyed))

\* the rows in the order ORDER BY c dir gives them
OrderRows(rows, tcols, c, dir) ==
    RowsOf(SortByKey(Keyed(rows, rows, tcols, <<c>>, IF dir = "DESC" THEN 0 - 1 ELSE 1)))

\* the first label of out that is not a column of the table, or "" 
RECURSIVE UnknownColumn(_, _)
UnknownColumn(out, tcols) ==
    IF out = <<>> THEN ""
    ELSE IF ~Contains(tcols, Head(out)) THEN Head(out)
    ELSE UnknownColumn(Tail(out), tcols)

\* SELECT out FROM t rest, for a table t of the database
SelectFrom(db, t, out, rest) ==
    IF UnknownColumn(out, t.cols) # ""
    THEN Failure(db, "no such column: " \o UnknownColumn(out, t.cols))
    ELSE IF rest = <<>> THEN Result(db, out, ProjectRows(t.rows, t.cols, out))
    ELSE IF Len(rest) = 4 /\ rest[1] = "ORDER" /\ rest[2] = "BY"
            /\ rest[4] \in {"ASC", "DESC"}
         THEN IF ~Contains(t.cols, rest[3])
              THEN Failure(db, "no such column: " \o rest[3])
              ELSE Result(db, out,
                          ProjectRows(OrderRows(t.rows, t.cols, rest[3], rest[4]),
                                      t.cols, out))
    ELSE SyntaxError(db, rest)

\* SELECT sel FROM table rest
Select(db, sel, table, rest) ==
    IF sel = <<>> THEN SyntaxError(db, <<"FROM">>)
    ELSE IF table \notin DOMAIN db THEN Failure(db, "no such table: " \o table)
    ELSE SelectFrom(db, db[table], ExpandList(sel, db[table].cols), rest)

ExecSelect(db, w, p) ==
    Select(db, SelectSeq(SubSeq(w, 2, p - 1), IsNotComma), w[p + 1],
           SubSeq(w, p + 2, Len(w)))

\* DELETE FROM table rest
ExecDelete(db, table, rest) ==
    IF table \notin DOMAIN db THEN Failure(db, "no such table: " \o table)
    ELSE IF rest = <<>>
         THEN Result([db EXCEPT ![table].rows = <<>>], NoDescription, <<>>)
    ELSE IF rest = <<"RETURNING", "*">>
         THEN Result([db EXCEPT ![table].rows = <<>>], db[table].cols, db[table].rows)
    ELSE SyntaxError(db, rest)

\* the row with its value in column col replaced by its value in column src
SetColumn(row, tcols, col, src) ==
    [i \in 1..Len(row) |-> IF tcols[i] = col THEN row[IndexOf(tcols, src)] ELSE row[i]]

RECURSIVE SetRows(_, _, _, _)
SetRows(rows, tcols, col, src) ==
    IF rows = <<>> THEN <<>>
    ELSE <<SetColumn(Head(rows), tcols, col, src)>> \o SetRows(Tail(rows), tcols, col, src)

Updated(db, table, col, src) ==
    [db EXCEPT ![table].rows = SetRows(db[table].rows, db[table].cols, col, src)]

\* UPDATE table SET col = src rest, src naming a column
ExecUpdate(db, table, col, src, rest) ==
    IF table \notin DOMAIN db THEN Failure(db, "no such table: " \o table)
    ELSE IF ~Contains(db[table].cols, col) THEN Failure(db, "no such column: " \o col)
    ELSE IF ~Contains(db[table].cols, src) THEN Failure(db, "no such column: " \o src)
    ELSE IF rest = <<>> THEN Result(Updated(db, table, col, src), NoDescription, <<>>)
    ELSE IF rest = <<"RETURNING", "*">>
         THEN Result(Updated(db, table, col, src), db[table].cols,
                     Updated(db, table, col, src)[table].rows)
    ELSE SyntaxError(db, rest)

\* DROP TABLE table
ExecDrop(db, table) ==
    IF table \notin DOMAIN db THEN Failure(db, "no such table: " \o table)
    ELSE Result([t \in DOMAIN db \ {table} |-> db[t]], NoDescription, <<>>)

\* the statement whose words are w
ExecWords(db, w) ==
    IF Len(w) >= 3 /\ w[1] = "SELECT" /\ Contains(SubSeq(w, 1, Len(w) - 1), "FROM")
    THEN ExecSelect(db, w, IndexOf(w, "FROM"))
    ELSE IF Len(w) >= 3 /\ w[1] = "DELETE" /\ w[2] = "FROM"
         THEN ExecDelete(db, w[3], SubSeq(w, 4, Len(w)))
    ELSE IF Len(w) >= 6 /\ w[1] = "UPDATE" /\ w[3] = "SET" /\ w[5] = "="
         THEN ExecUpdate(db, w[2], w[4], w[6], SubSeq(w, 7, Len(w)))
    ELSE IF Len(w) = 3 /\ w[1] = "DROP" /\ w[2] = "TABLE" THEN ExecDrop(db, w[3])
    ELSE SyntaxError(db, w)

\* cursor.execute(sql) followed by cursor.fetchall() and cursor.description
Execute(db, sql) == ExecWords(db, SelectSeq(sql, IsWord))

-----------------------------------------------------------------------------
(* A connection (sqlite3.Connection): the database as the connection sees  *)
(* it, and the transaction the sqlite3 module opens implicitly before a    *)
(* data-modifying statement; nothing after the seeding commits.            *)

Connection(db) == [db |-> db, saved |-> db, in_txn |-> FALSE]

\* the connection once the sqlite3 module has prepared it for the statement
Begin(c, w) ==
    IF ~c.in_txn /\ w # <<>> /\ w[1] \in {"INSERT", "UPDATE", "DELETE", "REPLACE"}
    THEN [c EXCEPT !.saved = c.db, !.in_txn = TRUE]
    ELSE c

Executed(c, r) ==
    [exc |-> r.exc, description |-> r.description, rows |-> r.rows,
     conn |-> [c EXCEPT !.db = r.db]]

ExecuteIn(c, sql) == Executed(c, Execute(c.db, sql))

\* cursor.execute on a cursor of the connection
cursor_execute(c, sql) == ExecuteIn(Begin(c, SelectSeq(sql, IsWord)), sql)

\* conn.rollback()
rollback(c) == IF c.in_txn THEN Connection(c.saved) ELSE c

\* the connection initialize_sql_session_in_memory returns (its commit ends
\* the transaction of the INSERT)
initialize_sql_session_in_memory == Connection(UsersDb)

\* load_hr_data(conn): to_sql commits each table it writes
load_hr_data(c) == Connection(LoadTables(c.db, <<"Employees", "Departments", "Jobs">>))

\* the connection of a pass once task_1 has created and loaded it
SeedConn == load_hr_data(initialize_sql_session_in_memory)

-----------------------------------------------------------------------------
(* The data-frame operations validate_sql_query uses.                      *)

NoFrame == DataFrame(<<>>, <<>>)

ReadResult(r) ==
    IF r.exc # NoException
    THEN [exc |-> DatabaseError("Execution failed on sql: " \o r.exc.msg),
          df |-> NoFrame, conn |-> rollback(r.conn)]
    ELSE IF r.description = NoDescription
    THEN [exc |-> TypeError("'NoneType' object is not iterable"),
          df |-> NoFrame, conn |-> r.conn]
    ELSE [exc |-> NoException, df |-> DataFrame(r.rows, r.description),
          conn |-> r.conn]

\* pd.read_sql_query(sql, conn): the statement is executed (a failure is
\* rolled back and raised as a DatabaseError), the column labels are taken
\* from the cursor's description and the rows are fetched
read_sql_query(sql, c) == ReadResult(cursor_execute(c, sql))

\* DataFrame.equals: the same column labels, the same row index and the
\* same value at every position
equals(a, b) == a.columns = b.columns /\ a.index = b.index /\ a.rows = b.rows

\* the first label of by that names more than one column, or ""
RECURSIVE AmbiguousLabel(_, _)
AmbiguousLabel(by, columns) ==
    IF by = <<>> THEN ""
    ELSE IF Count(columns, Head(by)) > 1 THEN Head(by)
    ELSE AmbiguousLabel(Tail(by), columns)

Sorted(df, sorted) ==
    [exc |-> NoException,
     df |-> [columns |-> df.columns, index |-> IndexesOf(sorted), rows |-> RowsOf(sorted)]]

\* DataFrame.sort_values(by=...): a label of by that names more than one
\* column is refused; the rows are put in ascending order of their values
\* in the by columns, each row keeping its index
sort_values(df, by) ==
    IF AmbiguousLabel(by, df.columns) # ""
    THEN [exc |-> ValueError("The column label '" \o AmbiguousLabel(by, df.columns)
                             \o "' is not unique."),
          df |-> NoFrame]
    ELSE Sorted(df, SortByKey(Keyed(df.rows, df.index, df.columns, by, 1)))

\* a comparison that leaves the sorted frames their permuted index
KeepIndex(df) == df

\* DataFrame.reset_index(drop=True)
reset_index(df) == [df EXCEPT !.index = [i \in 1..Len(df.rows) |-> i - 1]]

-----------------------------------------------------------------------------
(* The query runner and the result validator.  Each gives the connection   *)
(* as the call leaves it, what it displayed, the exception that left the   *)
(* call (NoException when it returned) and the number of statements it     *)
(* executed.                                                               *)

Shown(kind, text, df) == [kind |-> kind, text |-> text, df |-> df]

Warning(text) == Shown("warning", text, NoFrame)

Error(text) == Shown("error", text, NoFrame)

Success(text) == Shown("success", text, NoFrame)

Table(df) == Shown("dataframe", "", df)

\* the try statement of display_sql_results, r being what cursor.execute,
\* fetchall and description gave: only an sqlite3.Error is caught, and the
\* finally clause closes the cursor whichever way the statement is left
DisplayResult(r) ==
    IF r.exc # NoException
    THEN IF IsSqliteError(r.exc)
         THEN [conn |-> r.conn, ui |-> <<Error("An error occurred: " \o r.exc.msg)>>,
               exc |-> NoException, execs |-> 1]
         ELSE [conn |-> r.conn, ui |-> <<>>, exc |-> r.exc, execs |-> 1]
    ELSE IF r.description = NoDescription
    THEN [conn |-> r.conn, ui |-> <<>>,
          exc |-> TypeError("'NoneType' object is not iterable"), execs |-> 1]
    ELSE [conn |-> r.conn,
          ui |-> <<Success("Query executed successfully!"),
                   Table(df_column_uniquify(DataFrame(r.rows, r.description)))>>,
          exc |-> NoException, execs |-> 1]

display_sql_results(c, sql) ==
    IF Strip(sql) = <<>>
    THEN [conn |-> c, ui |-> <<Warning("Please enter a SQL query to execute.")>>,
          exc |-> NoException, execs |-> 0]
    ELSE DisplayResult(cursor_execute(c, sql))

\* a validator without its except clause
Reraised(c, e, execs) ==
    [conn |-> c, ret |-> FALSE, ui |-> <<>>, exc |-> e, execs |-> execs]

\* except Exception as e
Refused(c, e, execs) ==
    [conn |-> c, ret |-> FALSE, ui |-> <<Error("Error executing queries: " \o e.msg)>>,
     exc |-> NoException, execs |-> execs]

\* return
Returned(c, ret, execs) ==
    [conn |-> c, ret |-> ret, ui |-> <<>>, exc |-> NoException, execs |-> execs]

\* the outcome with the two frames read (NoFrame for a query that gave none)
WithFrames(r, user_df, expected_df) ==
    [conn |-> r.conn, ret |-> r.ret, ui |-> r.ui, exc |-> r.exc, execs |-> r.execs,
     user_df |-> user_df, expected_df |-> expected_df]

\* the second operand of the unordered comparison
CompareSorted(c, user_sorted, se) ==
    IF se.exc # NoException THEN Refused(c, se.exc, 2)
    ELSE Returned(c, equals(user_sorted, reset_index(se.df)), 2)

\* the unordered comparison: the learner's frame is sorted and re-indexed
\* first, then the reference frame
CompareUnordered(c, su, expected_df) ==
    IF su.exc # NoException THEN Refused(c, su.exc, 2)
    ELSE CompareSorted(c, reset_index(su.df),
                       sort_values(expected_df, expected_df.columns))

\* a validator that sorts both frames whatever ordered is
CompareIgnoringOrder(c, user_df, expected_df, ordered) ==
    CompareUnordered(c, sort_values(user_df, user_df.columns), expected_df)

\* if ordered: ... else: ...
Compare(c, user_df, expected_df, ordered) ==
    IF ordered THEN Returned(c, equals(user_df, expected_df), 2)
    ELSE CompareUnordered(c, sort_values(user_df, user_df.columns), expected_df)

ValidateExpected(u, e, ordered) ==
    IF e.exc # NoException THEN WithFrames(Refused(e.conn, e.exc, 2), u.df, NoFrame)
    ELSE WithFrames(Compare(e.conn, u.df, e.df, ordered), u.df, e.df)

ValidateUser(u, expected_query, ordered) ==
    IF u.exc # NoException THEN WithFrames(Refused(u.conn, u.exc, 1), NoFrame, NoFrame)
    ELSE ValidateExpected(u, read_sql_query(expected_query, u.conn), ordered)

validate_sql_query(c, user_query, expected_query, ordered) ==
    IF Strip(user_query) = <<>> \/ Strip(expected_query) = <<>>
    THEN WithFrames(Returned(c, FALSE, 0), NoFrame, NoFrame)
    ELSE ValidateUser(read_sql_query(user_query, c), expected_query, ordered)

-----------------------------------------------------------------------------
(* The query texts a learner types, and the reference query of Task 1.     *)

SelectEmployees == <<"SELECT", " ", "*", " ", "FROM", " ", "Employees">>

UsersByAge(dir) ==
    <<"SELECT", " ", "name", ",", " ", "age", " ", "FROM", " ", "users", " ",
      "ORDER", " ", "BY", " ", "age", " ", dir>>

LearnerTexts ==
    { <<>>,
      <<" ", "\n">>,
      SelectEmployees,
      <<"\n">> \o SelectEmployees \o <<" ">>,
      UsersByAge("DESC"),
      UsersByAge("ASC"),
      <<"SELECT", " ", "age", ",", " ", "name", " ", "FROM", " ", "users">>,
      <<"SELECT", " ", "name", ",", " ", "name", " ", "FROM", " ", "users">>,
      <<"SELECT", " ", "*", " ", "FROM", " ", "nonexistent_table">>,
      <<"SELEC", " ", "*">>,
      <<"DELETE", " ", "FROM", " ", "Employees">>,
      <<"DELETE", " ", "FROM", " ", "Employees", " ", "RETURNING", " ", "*">>,
      <<"UPDATE", " ", "Employees", " ", "SET", " ", "Name", " ", "=", " ",
        "EmployeeID", " ", "RETURNING", " ", "*">>,
      <<"DROP", " ", "TABLE", " ", "Employees">> }

\* the reference queries a lesson may grade against
ReferenceTexts ==
    { <<" ">>,
      SelectEmployees,
      UsersByAge("ASC"),
      <<"SELECT", " ", "name", ",", " ", "name", " ", "FROM", " ", "users">>,
      <<"SELECT", " ", "*", " ", "FROM", " ", "nonexistent_table">> }

\* what a learner types into an editor of Lesson 1
EditorTexts ==
    { <<" ">>,
      SelectEmployees,
      <<"DELETE", " ", "FROM", " ", "Employees">>,
      <<"DELETE", " ", "FROM", " ", "Employees", " ", "RETURNING", " ", "*">>,
      <<"UPDATE", " ", "Employees", " ", "SET", " ", "Name", " ", "=", " ",
        "EmployeeID", " ", "RETURNING", " ", "*">> }

-----------------------------------------------------------------------------
(* One seeded connection driven call by call: the query runner and the     *)
(* validator are called with any texts, in any order, on the connection    *)
(* the earlier calls have left.                                            *)

\* no session is open
AppParked ==
    /\ pc = <<>> /\ button = <<>> /\ conn = <<>> /\ dbs = <<>> /\ nextConn = 0
    /\ widget = <<>> /\ session_state = <<>> /\ cache = {} /\ nextId = 0
    /\ ui = <<>> /\ raised = <<>> /\ dirty = <<>>

NoCall == [fn |-> "none", sql |-> <<>>, expected |-> <<>>, ordered |-> TRUE]

NoOut == [ret |-> FALSE, ui |-> <<>>, exc |-> NoException, execs |-> 0,
          user_df |-> NoFrame, expected_df |-> NoFrame]

QueryIdle == q_db = SeedConn /\ q_call = NoCall /\ q_out = NoOut

QueryInit == QueryIdle

CallDisplay(sql) ==
    \E r \in {display_sql_results(q_db, sql)} :
        /\ q_call' = [fn |-> "display_sql_results", sql |-> sql,
                      expected |-> <<>>, ordered |-> TRUE]
        /\ q_out' = [ret |-> FALSE, ui |-> r.ui, exc |-> r.exc, execs |-> r.execs,
                     user_df |-> NoFrame, expected_df |-> NoFrame]
        /\ q_db' = r.conn
        /\ UNCHANGED <<appVars, uniqVars>>

CallValidate(user_query, expected_query, ordered) ==
    \E r \in {validate_sql_query(q_db, user_query, expected_query, ordered)} :
        /\ q_call' = [fn |-> "validate_sql_query", sql |-> user_query,
                      expected |-> expected_query, ordered |-> ordered]
        /\ q_out' = [ret |-> r.ret, ui |-> r.ui, exc |-> r.exc, execs |-> r.execs,
                     user_df |-> r.user_df, expected_df |-> r.expected_df]
        /\ q_db' = r.conn
        /\ UNCHANGED <<appVars, uniqVars>>

NextQuery ==
    \/ \E sql \in LearnerTexts : CallDisplay(sql)
    \/ \E user_query \in LearnerTexts, expected_query \in ReferenceTexts,
          ordered \in BOOLEAN : CallValidate(user_query, expected_query, ordered)

InitQuery == QueryInit /\ AppParked /\ UniqIdle

SpecQuery == InitQuery /\ [][NextQuery]_vars

InitUniq == UniqInit /\ AppParked /\ QueryIdle

NextUniq == UApply \/ UAgain

SpecUniq == InitUniq /\ [][NextUniq]_vars

-----------------------------------------------------------------------------
(* Lesson 1 in the browser sessions of the process.  A rendering pass is   *)
(* one run of task_1, started by an editor's submission or by a button     *)
(* press; the passes of different sessions interleave between the steps    *)
(* of the script.                                                          *)

Sessions == {"s1", "s2"}

Editors == {"welcome_sql", "task_1_sql"}

Buttons == {"Run Query", "Run Task 1 Query"}

NoConn == 0

\* the value code_editor returns before the learner has submitted anything
InitialResponse == [id |-> 0, text |-> <<>>]

\* a connect that hands every pass the same database
SharedConnect(n) == 1

\* the handle of the database sqlite3.connect(":memory:") opens, n being the
\* number of databases opened before: a database of its own
connect(n) == n + 1

\* a database no pass holds any longer
Closed == Connection(<<>>)

\* a hash function that does not tell the responses apart
ConstantKey(code_editor_response) == 0

\* hash_funcs={dict: lambda _response: _response.get("id")}
HashKey(code_editor_response) == code_editor_response.id

\* st.session_state.get(key, "")
Get(state, key) == IF key \in DOMAIN state THEN state[key] ELSE <<>>

\* st.session_state[key] = text
Put(state, key, text) ==
    [k \in DOMAIN state \cup {key} |-> IF k = key THEN text ELSE state[k]]

AppInit ==
    /\ pc = [s \in Sessions |-> "idle"]
    /\ button = [s \in Sessions |-> "none"]
    /\ conn = [s \in Sessions |-> NoConn]
    /\ dbs = <<>>
    /\ nextConn = 0
    /\ widget = [s \in Sessions |-> [k \in Editors |-> InitialResponse]]
    /\ session_state = [s \in Sessions |-> <<>>]
    /\ cache = {}
    /\ nextId = 0
    /\ ui = [s \in Sessions |-> <<>>]
    /\ raised = [s \in Sessions |-> NoException]
    /\ dirty = [s \in Sessions |-> FALSE]

\* main_page and the first lines of task_1: the title and the text are
\* shown, a connection is created and the HR data loaded into it
StartPass(s, b) ==
    /\ pc[s] = "idle"
    /\ nextConn < MaxRenders
    /\ pc' = [pc EXCEPT ![s] = "editor1"]
    /\ button' = [button EXCEPT ![s] = b]
    /\ conn' = [conn EXCEPT ![s] = connect(nextConn)]
    /\ dbs' = [h \in DOMAIN dbs \cup {connect(nextConn)} |->
                  IF h = connect(nextConn)
                  THEN load_hr_data(initialize_sql_session_in_memory)
                  ELSE dbs[h]]
    /\ nextConn' = nextConn + 1
    /\ ui' = [ui EXCEPT ![s] = <<>>]
    /\ raised' = [raised EXCEPT ![s] = NoException]

\* the learner's text leaves an editor (debounce or blur): the component
\* gives the response an id of its own, and the script is run again
Submit(s, key, text) ==
    /\ nextId < MaxSubmits
    /\ StartPass(s, "none")
    /\ widget' = [widget EXCEPT ![s][key] = [id |-> nextId + 1, text |-> text]]
    /\ nextId' = nextId + 1
    /\ UNCHANGED <<session_state, cache, dirty, queryVars, uniqVars>>

\* a button is pressed: the script is run again, the editors returning the
\* responses they returned before
Click(s, b) ==
    /\ StartPass(s, b)
    /\ UNCHANGED <<widget, nextId, session_state, cache, dirty, queryVars, uniqVars>>

\* display_editor(key): _handle_editor_change runs unless the cache holds
\* an entry for the response's id
display_editor(s, key, at, next) ==
    /\ pc[s] = at
    /\ IF HashKey(widget[s][key]) \in cache
       THEN UNCHANGED <<session_state, cache>>
       ELSE /\ session_state' =
                  [session_state EXCEPT ![s] = Put(@, key, widget[s][key].text)]
            /\ cache' = cache \cup {HashKey(widget[s][key])}
    /\ pc' = [pc EXCEPT ![s] = next]
    /\ UNCHANGED <<button, conn, dbs, nextConn, widget, nextId, ui, raised, dirty,
                   queryVars, uniqVars>>

EditorWelcome(s) == display_editor(s, "welcome_sql", "editor1", "button1")

EditorTask1(s) == display_editor(s, "task_1_sql", "editor2", "button2")

\* the pass is over: its connection is dropped with the frame of task_1
EndPass(s, c, shown, exc) ==
    /\ pc' = [pc EXCEPT ![s] = "idle"]
    /\ dbs' = [dbs EXCEPT ![conn[s]] = Closed]
    /\ conn' = [conn EXCEPT ![s] = NoConn]
    /\ ui' = [ui EXCEPT ![s] = @ \o shown]
    /\ raised' = [raised EXCEPT ![s] = exc]
    /\ dirty' = [dirty EXCEPT ![s] = @ \/ c # SeedConn]

\* if st.button("Run Query"): the button was not the one pressed
SkipRunQuery(s) ==
    /\ pc[s] = "button1"
    /\ button[s] # "Run Query"
    /\ pc' = [pc EXCEPT ![s] = "editor2"]
    /\ UNCHANGED <<button, conn, dbs, nextConn, widget, session_state, cache, nextId,
                   ui, raised, dirty, queryVars, uniqVars>>

\* if st.button("Run Query"): the text of welcome_sql is run
RunQuery(s) ==
    /\ pc[s] = "button1"
    /\ button[s] = "Run Query"
    /\ \E r \in {display_sql_results(dbs[conn[s]], Get(session_state[s], "welcome_sql"))} :
          IF r.exc # NoException
          THEN EndPass(s, r.conn, r.ui, r.exc)
          ELSE /\ pc' = [pc EXCEPT ![s] = "editor2"]
               /\ dbs' = [dbs EXCEPT ![conn[s]] = r.conn]
               /\ ui' = [ui EXCEPT ![s] = @ \o r.ui]
               /\ UNCHANGED <<conn, raised, dirty>>
    /\ UNCHANGED <<button, nextConn, widget, session_state, cache, nextId,
                   queryVars, uniqVars>>

\* if st.button("Run Task 1 Query"): the button was not the one pressed
SkipRunTask1(s) ==
    /\ pc[s] = "button2"
    /\ button[s] # "Run Task 1 Query"
    /\ EndPass(s, dbs[conn[s]], <<>>, NoException)
    /\ UNCHANGED <<button, nextConn, widget, session_state, cache, nextId,
                   queryVars, uniqVars>>

Verdict(ret) ==
    IF ret THEN Success("Correct! You have successfully written a SELECT query.")
    ELSE Error("Incorrect answer. Please try again.")

\* if st.button("Run Task 1 Query"): the text of task_1_sql is run, then
\* graded against the reference query
RunTask1(s) ==
    /\ pc[s] = "button2"
    /\ button[s] = "Run Task 1 Query"
    /\ \E r \in {display_sql_results(dbs[conn[s]], Get(session_state[s], "task_1_sql"))} :
          IF r.exc # NoException
          THEN EndPass(s, r.conn, r.ui, r.exc)
          ELSE \E v \in {validate_sql_query(r.conn, Get(session_state[s], "task_1_sql"),
                                            SelectEmployees, TRUE)} :
                  EndPass(s, v.conn, r.ui \o v.ui \o <<Verdict(v.ret)>>, v.exc)
    /\ UNCHANGED <<button, nextConn, widget, session_state, cache, nextId,
                   queryVars, uniqVars>>

Init == AppInit /\ QueryIdle /\ UniqIdle

Next ==
    \/ \E s \in Sessions, key \in Editors, text \in EditorTexts : Submit(s, key, text)
    \/ \E s \in Sessions, b \in Buttons : Click(s, b)
    \/ \E s \in Sessions : EditorWelcome(s)
    \/ \E s \in Sessions : RunQuery(s)
    \/ \E s \in Sessions : SkipRunQuery(s)
    \/ \E s \in Sessions : EditorTask1(s)
    \/ \E s \in Sessions : RunTask1(s)
    \/ \E s \in Sessions : SkipRunTask1(s)

Spec == Init /\ [][Next]_vars

-----------------------------------------------------------------------------
(* The properties of the query runner and of the validator, checked under  *)
(* SpecQuery.                                                              *)

Blank(sql) == \A i \in 1..Len(sql) : sql[i] \in Whitespace

IsDisplay == q_call.fn = "display_sql_results"

IsValidate == q_call.fn = "validate_sql_query"

Kinds(shown) == [i \in 1..Len(shown) |-> shown[i].kind]

\* C1: display_sql_results never lets an exception out: a blank query ends
\* in a warning, and every other query ends either in a success report with
\* a table or in an error report.
C1_RunnerNeverRaises ==
    IsDisplay =>
        /\ q_out.exc = NoException
        /\ Kinds(q_out.ui) \in {<<"warning">>, <<"success", "dataframe">>, <<"error">>}

\* C2: a query that is empty or all whitespace is never executed: the
\* runner only warns and leaves the store as it was, and the validator
\* returns False, whichever of its two queries is the blank one, without
\* executing either and without touching the store.
C2_BlankQueryNotExecuted ==
    [][/\ (q_call'.fn = "display_sql_results" /\ Blank(q_call'.sql)) =>
            /\ q_out'.execs = 0
            /\ q_db' = q_db
            /\ Kinds(q_out'.ui) = <<"warning">>
            /\ q_out'.exc = NoException
       /\ (q_call'.fn = "validate_sql_query"
             /\ (Blank(q_call'.sql) \/ Blank(q_call'.expected))) =>
            /\ q_out'.ret = FALSE
            /\ q_out'.execs = 0
            /\ q_db' = q_db
            /\ q_out'.ui = <<>>
            /\ q_out'.exc = NoException]_vars

C2_Witness ==
    /\ IsValidate
    /\ q_call.sql = SelectEmployees
    /\ q_call.expected = <<" ">>
    /\ q_out.ret = FALSE
    /\ q_out.execs = 0

\* the statement gives no frame: the engine refuses it, or it returns no rows
GivesNoFrame(r) == r.exc # NoException \/ r.description = NoDescription

HasRepeatedLabel(columns) == \E i, j \in 1..Len(columns) : i # j /\ columns[i] = columns[j]

\* the reference query gives no frame, or the frames cannot be sorted
ReferenceOrComparisonFails(u, e, ordered) ==
    \/ GivesNoFrame(e)
    \/ ~ordered /\ (HasRepeatedLabel(u.description) \/ HasRepeatedLabel(e.description))

\* the call of the validator on database db fails somewhere
ValidationFails(db, u, expected_query, ordered) ==
    \/ GivesNoFrame(u)
    \/ ReferenceOrComparisonFails(u, Execute(u.db, expected_query), ordered)

\* C3: validate_sql_query never raises; when the learner's query or the
\* reference query fails to execute, or the comparison fails, it reports an
\* error and returns False.
C3_ValidatorNeverRaises ==
    [][q_call'.fn = "validate_sql_query" =>
          /\ q_out'.exc = NoException
          /\ (/\ ~Blank(q_call'.sql)
              /\ ~Blank(q_call'.expected)
              /\ ValidationFails(q_db.db, Execute(q_db.db, q_call'.sql),
                                 q_call'.expected, q_call'.ordered)) =>
                /\ q_out'.ret = FALSE
                /\ Kinds(q_out'.ui) = <<"error">>]_vars

C3_Witness ==
    /\ IsValidate
    /\ q_call.sql = SelectEmployees
    /\ q_call.expected = <<"SELECT", " ", "*", " ", "FROM", " ", "nonexistent_table">>
    /\ q_out.ret = FALSE
    /\ Kinds(q_out.ui) = <<"error">>
    /\ q_out.exc = NoException

\* both queries were executed and gave a frame
BothExecuted == IsValidate /\ q_out.execs = 2 /\ q_out.expected_df # NoFrame

SameValues(a, b) ==
    /\ Len(a.columns) = Len(b.columns)
    /\ \A j \in 1..Len(a.columns) : a.columns[j] = b.columns[j]
    /\ Len(a.rows) = Len(b.rows)
    /\ \A i \in 1..Len(a.rows) : \A j \in 1..Len(a.columns) : a.rows[i][j] = b.rows[i][j]

\* C4: with ordered true and both queries executed, the validator returns
\* True exactly when the two frames have the same columns in the same
\* order, the same number of rows and the same value at every position.
C4_OrderedEquivalence ==
    (BothExecuted /\ q_call.ordered) =>
        (q_out.ret <=> SameValues(q_out.user_df, q_out.expected_df))

C4_Witness ==
    /\ BothExecuted
    /\ q_call.ordered
    /\ q_call.sql = <<"\n">> \o SelectEmployees \o <<" ">>
    /\ q_call.expected = SelectEmployees
    /\ q_out.ret = TRUE
    /\ Len(q_out.user_df.rows) = 2

Occurrences(rows, r) == Cardinality({i \in 1..Len(rows) : rows[i] = r})

\* the two frames hold the same rows, each as often in one as in the other
SameRowsInAnyOrder(a, b) ==
    /\ Len(a.rows) = Len(b.rows)
    /\ \A i \in 1..Len(a.rows) : Occurrences(a.rows, a.rows[i]) = Occurrences(b.rows, a.rows[i])

\* the frames can both be sorted by their own columns, and sorted so, with
\* the row positions renumbered, they are the same frame
SameOnceSorted(a, b) ==
    /\ ~HasRepeatedLabel(a.columns)
    /\ ~HasRepeatedLabel(b.columns)
    /\ a.columns = b.columns
    /\ SameRowsInAnyOrder(a, b)

-----------------------------------------------------------------------------
(* The properties of df_column_uniquify, checked under SpecUniq.           *)

Uniquified == u_pc \in {"done", "again"}

Suffixed(x, k) == x \o "_" \o ToString(k)

\* the number of occurrences of s[i] before position i
EarlierOccurrences(s, i) == Cardinality({j \in 1..(i - 1) : s[j] = s[i]})

\* the first occurrence of a label is kept, its k-th repetition gets _k
RenamedInOrder(in, out) ==
    /\ Len(out) = Len(in)
    /\ \A i \in 1..Len(in) :
          out[i] = IF EarlierOccurrences(in, i) = 0 THEN in[i]
                   ELSE Suffixed(in[i], EarlierOccurrences(in, i))

\* a label of the sequence is the suffixed form x_k of a label x of it
HasSuffixedLabel(s) ==
    \E i, j \in 1..Len(s) : \E k \in 1..Len(s) : s[j] = Suffixed(s[i], k)

\* C6 as stated: for every label sequence the first occurrence of a label
\* is unchanged and its k-th repetition becomes x_k.
C6_Original == Uniquified => RenamedInOrder(u_in, u_out)

\* C6 as amended: for every label sequence none of whose labels is the
\* suffixed form x_k of a label x of the sequence, the first occurrence of
\* a label is unchanged and its k-th repetition becomes x_k.
C6_SuffixNumbering ==
    (Uniquified /\ ~HasSuffixedLabel(u_in)) => RenamedInOrder(u_in, u_out)

C6_Witness ==
    /\ u_pc = "done"
    /\ u_in = <<"a", "a", "b", "a">>
    /\ u_out = <<"a", "a_1", "b", "a_2">>

Distinct(s) == \A i, j \in 1..Len(s) : i # j => s[i] # s[j]

\* C10: the labels returned are pairwise distinct and as many as the labels
\* given, and labels that are already distinct are returned unchanged, so
\* that uniquifying a second time changes nothing.
C10_DistinctAndIdempotent ==
    Uniquified =>
        /\ Len(u_out) = Len(u_in)
        /\ Distinct(u_out)
        /\ Distinct(u_in) => u_out = u_in
        /\ u_pc = "again" => u_out = u_in

C10_Witness ==
    /\ u_pc = "done"
    /\ u_in = <<"a", "a_1", "a">>
    /\ u_out = <<"a", "a_1", "a_2">>

-----------------------------------------------------------------------------
(* The properties of the rendering passes, checked under Spec.             *)

InPass(s) == pc[s] # "idle"

\* C7: a pass starts from a store of its own holding exactly the seed (the
\* users table with its two rows, and Employees, Departments and Jobs as
\* the files give them), whatever the earlier passes did to theirs, and no
\* two passes under way hold the same store.
C7_FreshSeededStore ==
    \A s \in Sessions :
        /\ pc[s] = "editor1" =>
              /\ dbs[conn[s]] = SeedConn
              /\ DOMAIN dbs[conn[s]].db = {"users", "Employees", "Departments", "Jobs"}
              /\ dbs[conn[s]].db["users"].rows = << <<1, Alice, 30>>, <<2, Bob, 25>> >>
              /\ dbs[conn[s]].db["Employees"].rows = load_df("Employees").rows
        /\ InPass(s) => \A t \in Sessions \ {s} : conn[t] # conn[s]

C7_Witness ==
    \E s \in Sessions :
        /\ dirty[s]
        /\ pc[s] = "editor1"
        /\ dbs[conn[s]] = SeedConn
        /\ \E h \in DOMAIN dbs : h # conn[s] /\ dbs[h] = Closed

\* the pass of s has rendered the editor
Rendered(s, key) ==
    IF key = "welcome_sql" THEN pc[s] \in {"button1", "editor2", "button2"}
    ELSE pc[s] = "button2"

\* C8: the text tracked for an editor is written only by the rendering of
\* that editor, and once a pass has rendered the editor the text tracked
\* for it is the text of the editor's latest submission (empty if there was
\* none), whatever the other editor and the other sessions have submitted.
C8_TrackedTextIsLatest ==
    /\ [](\A s \in Sessions : \A key \in Editors :
             Rendered(s, key) => Get(session_state[s], key) = widget[s][key].text)
    /\ [][\A s \in Sessions : \A key \in Editors :
             Get(session_state'[s], key) # Get(session_state[s], key) =>
                /\ pc[s] = (IF key = "welcome_sql" THEN "editor1" ELSE "editor2")
                /\ pc'[s] # pc[s]]_vars

C8_Witness ==
    \E s \in Sessions : \E t \in Sessions \ {s} :
        /\ pc[s] = "button2"
        /\ button[s] = "Run Task 1 Query"
        /\ widget[s]["task_1_sql"].text = SelectEmployees
        /\ widget[t]["welcome_sql"].id # 0
        /\ widget[t]["welcome_sql"].text # SelectEmployees
        /\ Get(session_state[s], "task_1_sql") = SelectEmployees

Correct == Success("Correct! You have successfully written a SELECT query.")

\* the learner's query, run on the seeded store, leaves it as seeded and
\* gives the seeded Employees table
SelectsSeededEmployees(r) ==
    /\ r.exc = NoException
    /\ r.db = SeedDb
    /\ r.description = load_df("Employees").columns
    /\ r.rows = load_df("Employees").rows

\* C9: the pass of Run Task 1 Query shows the Correct! banner only if the
\* learner's query leaves the store as it was seeded and its result on the
\* seeded data is the seeded Employees table.
C9_GradedOnSeededData ==
    \A s \in Sessions :
        (/\ pc[s] = "idle"
         /\ button[s] = "Run Task 1 Query"
         /\ Contains(ui[s], Correct)) =>
            SelectsSeededEmployees(Execute(SeedDb, Get(session_state[s], "task_1_sql")))

====
